---- MODULE Spec2Model ----
(***************************************************************************)
(* The Ludo client.                                                        *)
(*                                                                         *)
(* Session protocol: the GameSocket connection manager                     *)
(* (src/src/network/gameSocket.ts, the class of lines 313-553) and the    *)
(* zustand store wired to it (src/src/state/gameState.ts).                 *)
(*                                                                         *)
(* JavaScript runs every handler to completion, so one action is one       *)
(* handler run: a store call, or a WebSocket open/message/close event, or  *)
(* a timer.  The only handler that yields is onopen, at                    *)
(* `await supabase.auth.getSession()`: it is two actions.  Handlers are    *)
(* written as operators from a state record to a state record, composed    *)
(* in the order of the statements of the code; an action commits the       *)
(* record its handler returns.                                             *)
(*                                                                         *)
(* Local rules engine: the useLudoGame hook (src/unnamed/part_002), with   *)
(* its timeouts as pending timers holding the values their closures        *)
(* captured.  The board geometry (ludoPositions.json) is not among the     *)
(* sources: the board is the circuit with private home stretches that the  *)
(* specification describes, scaled down.                                   *)
(***************************************************************************)
EXTENDS Integers, Sequences, FiniteSets, TLC

VARIABLES
    \* GameSocket fields
    ws,                 \* this.ws: id of the transport held, 0 for null
    roomCode,           \* this.roomCode, NullCode for null
    pendingRoomCode,    \* this.pendingRoomCode
    reconnectAttempts,  \* this.reconnectAttempts
    reconnectTimeout,   \* this.reconnectTimeout: "null", or the handle of a "pending" or "fired" timer
    isAuthenticated,    \* this.isAuthenticated
    \* the browser: WebSocket objects, timers and promise continuations
    transports,         \* id -> [readyState, authSent, acked, joins]
    orphanTimers,       \* pending reconnect timers whose handle was overwritten
    openConts,          \* onopen handlers suspended at `await getSession()`
    \* the store
    connectionState,
    error,
    userId,
    gameState,
    isRolling,
    diceAnimationValue,
    \* observation of the run
    wire,               \* the message transmitted by the last step and its transport
    authFailed,         \* an authentication failure was reported since the last connect()
    retries,            \* reconnect timers scheduled since the last connect()
    retryDelay,         \* the delay in ms of the last of them, 0 when there is none
    rollsSent,          \* ROLL_DICE transmitted since the last snapshot received (2: two or more)
    connects,           \* calls of connect() so far
    \* useLudoGame: the hook's state
    tokens,             \* colour -> id -> [pathIndex, isFinished]
    currentPlayer,
    diceValue,
    rolling,            \* the hook's isRolling
    hasRolled,
    selectedToken,      \* NoneSelected for null
    winner,             \* Null for null
    timers,             \* pending setTimeout callbacks, oldest first, with their closures
    \* observation of the game
    rolls,              \* dice rolls started so far
    resets,             \* calls of resetGame so far
    moved,              \* moveToken calls that changed the board since the last dice result
    \* the lobby: room creation
    randomArray,        \* the Uint32Array filled by crypto.getRandomValues
    newRoomCode         \* the code handleCreateRoom generated, NullCode before

socketVars == <<ws, roomCode, pendingRoomCode, reconnectAttempts, reconnectTimeout,
                isAuthenticated, transports, orphanTimers, openConts, connectionState,
                error, userId, gameState, isRolling, diceAnimationValue, wire,
                authFailed, retries, retryDelay, rollsSent, connects>>

engineVars == <<tokens, currentPlayer, diceValue, rolling, hasRolled, selectedToken,
                winner, timers, rolls, resets, moved>>

lobbyVars == <<randomArray, newRoomCode>>

vars == <<socketVars, engineVars, lobbyVars>>

----------------------------------------------------------------------------
(* Bounds of the model *)

\* Spec: WebSocket objects constructed in one run
MaxTransports == 2
\* RaceSpec: the same, in the runs where a stale transport outlives a retry
MaxRaceTransports == 3
\* StoreSpec: the same, in the runs with the store's intents
MaxStoreTransports == 2
\* RetrySpec: the same, in the runs of one connection losing its transport
MaxRetryTransports == 6

\* GameSpec: dice rolls and resets of the local game in one run
MaxRolls == 4
MaxResets == 1
\* timers pending when the user clicks
MaxPending == 2
\* ScenarioSpec: dice rolls and resets
MaxScenarioRolls == 2
MaxScenarioResets == 1

(* Program constants *)

maxReconnectAttempts == 5

----------------------------------------------------------------------------
(* Strings.  A room code is a sequence of one-character strings, so that   *)
(* toUpperCase and the validation regex are computed, not assumed.         *)

LowerLetters == <<"a","b","c","d","e","f","g","h","i","j","k","l","m",
                  "n","o","p","q","r","s","t","u","v","w","x","y","z">>
UpperLetters == <<"A","B","C","D","E","F","G","H","I","J","K","L","M",
                  "N","O","P","Q","R","S","T","U","V","W","X","Y","Z">>
Digits == <<"0","1","2","3","4","5","6","7","8","9">>

Range(f) == {f[i] : i \in DOMAIN f}

toUpperCaseChar(c) ==
    IF c \in Range(LowerLetters)
    THEN UpperLetters[CHOOSE i \in DOMAIN LowerLetters : LowerLetters[i] = c]
    ELSE c

toUpperCase(str) == [i \in DOMAIN str |-> toUpperCaseChar(str[i])]

\* /^[A-Z0-9]{4,6}$/.test(roomCode)
validateRoomCode(code) ==
    /\ Len(code) >= 4
    /\ Len(code) <= 6
    /\ \A i \in DOMAIN code : code[i] \in Range(UpperLetters) \cup Range(Digits)

\* Number.isInteger(tokenIndex) && tokenIndex >= 0 && tokenIndex <= 3
validateTokenIndex(tokenIndex) ==
    /\ tokenIndex \in Int
    /\ tokenIndex >= 0
    /\ tokenIndex <= 3

\* 'ABCDEFGHJKLMNPQRSTUVWXYZ23456789'
chars == <<"A","B","C","D","E","F","G","H","J","K","L","M","N","P","Q","R",
           "S","T","U","V","W","X","Y","Z","2","3","4","5","6","7","8","9">>

\* chars.charAt(k), k from 0
charAt(str, k) == str[k + 1]

\* as generateRoomCode, but one character short
generateRoomCodeOfFive(array) ==
    [i \in 1..5 |-> charAt(chars, array[i] % Len(chars))]

\* code += chars.charAt(array[i] % chars.length), for i from 0 to 5
generateRoomCode(array) ==
    [i \in 1..6 |-> charAt(chars, array[i] % Len(chars))]

NullCode == << >>          \* null room code (null and "" are both falsy in every test of the class)
Null == "null"             \* null string (error, userId)
NullState == [isNull |-> TRUE]   \* gameState: null
\* nothing was transmitted
NoMsg == [type |-> "NONE"]
NoWire == [t |-> 0, msg |-> NoMsg]

\* room codes passed to connect(): one that is valid once upper-cased, one too short
RoomInputs == { <<"a","b","1","2">>, <<"x","y">> }

\* token indexes passed to the store's moveToken
TokenInputs == {-1, 2, 4}

\* results of supabase.auth.getSession(): session?.access_token
NoToken == "undefined"
TokenResults == {NoToken, "jwt"}

----------------------------------------------------------------------------
(* Messages of the server *)

\* in the ROLL phase the dice is null
SnapRoll == [roomCode |-> "AB12", phase |-> "ROLL", currentTurn |-> "u1"]
SnapMove == [roomCode |-> "AB12", phase |-> "MOVE", currentTurn |-> "u1", dice |-> 6,
             movableTokens |-> <<0, 2>>]
\* a snapshot whose player has a colour that is none of the four
SnapUnknownColor == [roomCode |-> "AB12", phase |-> "ROLL", currentTurn |-> "u1",
                     players |-> <<[id |-> "u1", color |-> "purple"]>>]
Snapshots == {SnapRoll, SnapMove, SnapUnknownColor}

AuthSuccess == [type |-> "AUTH_SUCCESS", userId |-> "u1"]
ErrUnauthorized == [type |-> "ERROR", message |-> "Unauthorized"]
ErrRoomFull == [type |-> "ERROR", message |-> "Room is full"]
LegacyAck == [authenticated |-> TRUE]

ServerMessages == Snapshots \cup {AuthSuccess, ErrUnauthorized, ErrRoomFull, LegacyAck}

\* data.f is present and truthy
Has(data, f) == f \in DOMAIN data

\* errorMsg.toLowerCase().includes('auth') || errorMsg.toLowerCase().includes('unauthorized'),
\* evaluated on the error texts of the model
mentionsAuth(errorMsg) == errorMsg \in {"Unauthorized", "Authentication failed"}

----------------------------------------------------------------------------
(* The state as one record, for composing the statements of a handler *)

Cur == [ws |-> ws, roomCode |-> roomCode, pendingRoomCode |-> pendingRoomCode,
        reconnectAttempts |-> reconnectAttempts, reconnectTimeout |-> reconnectTimeout,
        isAuthenticated |-> isAuthenticated, transports |-> transports,
        orphanTimers |-> orphanTimers, openConts |-> openConts,
        connectionState |-> connectionState, error |-> error, userId |-> userId,
        gameState |-> gameState, isRolling |-> isRolling,
        diceAnimationValue |-> diceAnimationValue, wire |-> NoWire,
        authFailed |-> authFailed, retries |-> retries, retryDelay |-> retryDelay,
        rollsSent |-> rollsSent,
        connects |-> connects]

Commit(s) ==
    /\ ws' = s.ws
    /\ roomCode' = s.roomCode
    /\ pendingRoomCode' = s.pendingRoomCode
    /\ reconnectAttempts' = s.reconnectAttempts
    /\ reconnectTimeout' = s.reconnectTimeout
    /\ isAuthenticated' = s.isAuthenticated
    /\ transports' = s.transports
    /\ orphanTimers' = s.orphanTimers
    /\ openConts' = s.openConts
    /\ connectionState' = s.connectionState
    /\ error' = s.error
    /\ userId' = s.userId
    /\ gameState' = s.gameState
    /\ isRolling' = s.isRolling
    /\ diceAnimationValue' = s.diceAnimationValue
    /\ wire' = s.wire
    /\ authFailed' = s.authFailed
    /\ retries' = s.retries
    /\ retryDelay' = s.retryDelay
    /\ rollsSent' = s.rollsSent
    /\ connects' = s.connects
    /\ UNCHANGED <<engineVars, lobbyVars>>

\* the transports constructed so far, in the order of construction
TransportIds == DOMAIN transports

\* new WebSocket(wsUrl), with what was sent and received on it
NewTransport == [readyState |-> "CONNECTING", authSent |-> FALSE, acked |-> FALSE, joins |-> 0]
\* a transport whose close event was delivered: nothing more happens on it
ClosedTransport == [NewTransport EXCEPT !.readyState = "CLOSED"]

numCreated(s) == Len(s.transports)

----------------------------------------------------------------------------
(* The store's callbacks (gameState.ts, setCallbacks) *)

\* as onStateUpdate, but merging the snapshot into the state held
onStateUpdateMerging(s, state) ==
    LET merged == IF s.gameState = NullState THEN state
                  ELSE [f \in DOMAIN s.gameState \cup DOMAIN state |->
                           IF f \in DOMAIN state THEN state[f] ELSE s.gameState[f]]
    IN  [s EXCEPT !.gameState = merged,
                  !.isRolling = FALSE,
                  !.diceAnimationValue = IF Has(state, "dice") THEN state.dice ELSE 1]

\* set({ gameState: state, isRolling: false, diceAnimationValue: state.dice ?? 1 })
onStateUpdate(s, state) ==
    [s EXCEPT !.gameState = state,
              !.isRolling = FALSE,
              !.rollsSent = 0,
              !.diceAnimationValue = IF Has(state, "dice") THEN state.dice ELSE 1]

onConnectionChange(s, state) == [s EXCEPT !.connectionState = state]

onError(s, err) == [s EXCEPT !.error = err]

onAuthRequired(s) == [s EXCEPT !.gameState = NullState, !.error = "Please log in to play"]

----------------------------------------------------------------------------
(* GameSocket *)

\* ws.send(JSON.stringify(message)) on transport t
transmit(s, t, message) ==
    [s EXCEPT !.wire = [t |-> t, msg |-> message],
              !.transports[t].authSent = @ \/ message.type = "AUTH",
              !.transports[t].joins =
                  IF message.type = "JOIN_ROOM" /\ @ < 2 THEN @ + 1 ELSE @]

\* as send, without the validation of the message
sendUnvalidated(s, message) ==
    IF s.ws # 0 /\ s.transports[s.ws].readyState = "OPEN"
    THEN transmit(s, s.ws, message)
    ELSE s

send(s, message) ==
    IF s.ws # 0 /\ s.transports[s.ws].readyState = "OPEN"
    THEN IF message.type = "JOIN_ROOM" /\ ~validateRoomCode(message.roomCode)
         THEN onError(s, "Invalid room code format. Must be 4-6 alphanumeric characters.")
         ELSE IF message.type = "MOVE_TOKEN" /\ ~validateTokenIndex(message.tokenIndex)
         THEN onError(s, "Invalid token selection.")
         ELSE transmit(s, s.ws, message)
    ELSE s

\* WebSocket.close(): a connecting or open transport starts closing;
\* its close event is delivered later
wsClose(tr) ==
    IF tr.readyState \in {"CONNECTING", "OPEN"}
    THEN [tr EXCEPT !.readyState = "CLOSING"]
    ELSE tr

disconnect(s) ==
    LET s1 == IF s.reconnectTimeout # "null"
              THEN [s EXCEPT !.reconnectTimeout = "null"]   \* clearTimeout cancels a pending timer
              ELSE s
        s2 == IF s1.ws # 0
              THEN [s1 EXCEPT !.reconnectAttempts = maxReconnectAttempts,
                              !.transports[s1.ws] = wsClose(@),
                              !.ws = 0]
              ELSE s1
        s3 == [s2 EXCEPT !.roomCode = NullCode,
                         !.pendingRoomCode = NullCode,
                         !.isAuthenticated = FALSE]
    IN  onConnectionChange(s3, "disconnected")

\* as createConnection, without the test of this.roomCode
createConnectionUnguarded(s) ==
    LET s1 == onConnectionChange(s, "connecting")
    IN  [s1 EXCEPT !.transports = Append(@, NewTransport), !.ws = numCreated(s1) + 1]

createConnection(s) ==
    IF s.roomCode = NullCode
    THEN s
    ELSE LET s1 == onConnectionChange(s, "connecting")
             t == numCreated(s1) + 1
         IN  [s1 EXCEPT !.transports = Append(@, NewTransport), !.ws = t]

connect(s, code) ==
    LET s1 == disconnect(s)
        s2 == [s1 EXCEPT !.roomCode = toUpperCase(code)]
        s3 == [s2 EXCEPT !.pendingRoomCode = s2.roomCode,
                         !.reconnectAttempts = 0,
                         !.isAuthenticated = FALSE,
                         !.authFailed = FALSE,
                         !.retries = 0,
                         !.retryDelay = 0,
                         !.connects = @ + 1]
    IN  createConnection(s3)

\* as canRetry, without the limit on the attempts
canRetryUnlimited(s) == s.roomCode # NullCode

\* the retry test of handleDisconnect
canRetry(s) == s.roomCode # NullCode /\ s.reconnectAttempts < maxReconnectAttempts

handleDisconnect(s) ==
    LET s0 == [s EXCEPT !.isAuthenticated = FALSE]
    IN  IF canRetry(s0)
        THEN LET s1 == [s0 EXCEPT !.reconnectAttempts = @ + 1]
                 s2 == onConnectionChange(s1, "reconnecting")
             IN  \* this.reconnectTimeout = setTimeout(...): a pending handle is overwritten
                 [s2 EXCEPT !.orphanTimers = IF s2.reconnectTimeout = "pending" THEN @ + 1 ELSE @,
                            !.reconnectTimeout = "pending",
                            !.retries = IF @ <= maxReconnectAttempts THEN @ + 1 ELSE @,
                            \* setTimeout(..., 2000 * this.reconnectAttempts)
                            !.retryDelay = 2000 * s1.reconnectAttempts]
        ELSE LET s1 == onConnectionChange(s0, "disconnected")
             IN  IF s1.reconnectAttempts >= maxReconnectAttempts
                 THEN onError(s1, "Connection lost. Please rejoin the game.")
                 ELSE s1

\* ws.onopen up to `await supabase.auth.getSession()`
onopen(s) ==
    LET s1 == onConnectionChange(s, "authenticating")
    IN  [s1 EXCEPT !.isAuthenticated = FALSE, !.openConts = @ + 1]

\* ws.onopen after the await, with the token the session gave
onopenResume(s, token) ==
    LET s0 == [s EXCEPT !.openConts = @ - 1]
    IN  IF token = NoToken
        THEN LET s1 == onError(s0, "Not authenticated. Please log in.")
                 s2 == onAuthRequired(s1)
             IN  disconnect([s2 EXCEPT !.authFailed = TRUE])
        ELSE send(s0, [type |-> "AUTH", token |-> token])

\* as isStateUpdate, but only once authenticated
isStateUpdateAuthenticated(s, data) ==
    s.isAuthenticated /\ Has(data, "roomCode") /\ Has(data, "phase")

\* the test of the state-update branch of ws.onmessage
isStateUpdate(s, data) == Has(data, "roomCode") /\ Has(data, "phase")

\* ws.onmessage
onmessage(s, data) ==
    IF Has(data, "type") /\ data.type = "AUTH_SUCCESS"
    THEN LET s1 == [s EXCEPT !.isAuthenticated = TRUE]
         IN  IF s1.pendingRoomCode # NullCode
             THEN send(onConnectionChange(s1, "joining"),
                       [type |-> "JOIN_ROOM", roomCode |-> s1.pendingRoomCode])
             ELSE s1
    ELSE IF isStateUpdate(s, data)
    THEN onStateUpdate(onConnectionChange(s, "in_game"), data)
    ELSE IF (Has(data, "type") /\ data.type = "ERROR") \/ Has(data, "error")
    THEN LET errorMsg == IF Has(data, "message") THEN data.message
                         ELSE IF Has(data, "error") THEN data.error
                         ELSE "Unknown error"
             s1 == onConnectionChange(onError(s, errorMsg), "error")
         IN  IF mentionsAuth(errorMsg)
             THEN onAuthRequired([s1 EXCEPT !.authFailed = TRUE])
             ELSE s1
    ELSE s

\* ws.onerror
onerror(s) == onError(s, "Connection error")

\* ws.onclose
onclose(s) == handleDisconnect([s EXCEPT !.isAuthenticated = FALSE])

----------------------------------------------------------------------------
(* The store's actions (gameState.ts) *)

connectToRoom(s, code) == connect([s EXCEPT !.error = Null], code)

storeDisconnect(s) ==
    [disconnect(s) EXCEPT !.gameState = NullState, !.error = Null, !.isRolling = FALSE]

\* the ROLL_DICE transmitted by the call, if any, is counted
counted(s) ==
    IF s.wire.msg.type = "ROLL_DICE"
    THEN [s EXCEPT !.rollsSent = IF @ < 2 THEN @ + 1 ELSE @]
    ELSE s

\* as storeRollDice, but moving the game state held on to the MOVE phase
\* without waiting for the server's snapshot
storeRollDiceOptimistic(s) ==
    IF s.gameState = NullState THEN s
    ELSE IF s.gameState.phase # "ROLL" THEN s
    ELSE IF s.gameState.currentTurn # s.userId THEN s
    ELSE IF s.isRolling THEN s
    ELSE counted(send([s EXCEPT !.isRolling = TRUE, !.gameState.phase = "MOVE"],
                      [type |-> "ROLL_DICE"]))

\* as storeRollDice, without the test of isRolling
storeRollDiceRepeated(s) ==
    IF s.gameState = NullState THEN s
    ELSE IF s.gameState.phase # "ROLL" THEN s
    ELSE IF s.gameState.currentTurn # s.userId THEN s
    ELSE counted(send([s EXCEPT !.isRolling = TRUE], [type |-> "ROLL_DICE"]))

storeRollDice(s) ==
    IF s.gameState = NullState THEN s
    ELSE IF s.gameState.phase # "ROLL" THEN s
    ELSE IF s.gameState.currentTurn # s.userId THEN s
    ELSE IF s.isRolling THEN s
    ELSE counted(send([s EXCEPT !.isRolling = TRUE], [type |-> "ROLL_DICE"]))

\* as storeMoveToken, without the test of the turn
storeMoveTokenAnyTurn(s, tokenIndex) ==
    IF s.gameState = NullState THEN s
    ELSE IF s.gameState.phase # "MOVE" THEN s
    ELSE send(s, [type |-> "MOVE_TOKEN", tokenIndex |-> tokenIndex])

storeMoveToken(s, tokenIndex) ==
    IF s.gameState = NullState THEN s
    ELSE IF s.gameState.phase # "MOVE" THEN s
    ELSE IF s.gameState.currentTurn # s.userId THEN s
    ELSE send(s, [type |-> "MOVE_TOKEN", tokenIndex |-> tokenIndex])

----------------------------------------------------------------------------
(* The board (LUDO_DATA): a circuit shared by the four colours, each colour *)
(* entering at its own start cell, walking all the circuit but its last    *)
(* cell, then its private home stretch up to its home cell.                 *)

PLAYERS == <<"red", "green", "yellow", "blue">>
Colors == Range(PLAYERS)
TokenIds == 0..3

indexOf(color) == CHOOSE i \in DOMAIN PLAYERS : PLAYERS[i] = color

\* circuit cells between two start cells, and cells of a home stretch
QuarterLen == 2
HomeStretchLen == 2

CircuitLen == 4 * QuarterLen
\* N: the length of a colour's path
PathLen == (CircuitLen - 1) + HomeStretchLen

\* cell ids: the circuit's cells come first, then the home stretches, then the bases
homeStretchCell(color, k) == CircuitLen + (indexOf(color) - 1) * HomeStretchLen + k
baseCell(color, id) == CircuitLen + 4 * HomeStretchLen + (indexOf(color) - 1) * 4 + id

\* the start cells are safe, as are the cells of the home stretches
getPlayerPath(color) ==
    [i \in 0..(PathLen - 1) |->
        IF i < CircuitLen - 1
        THEN [cell |-> ((indexOf(color) - 1) * QuarterLen + i) % CircuitLen,
              isSafe |-> (i % QuarterLen = 0)]
        ELSE [cell |-> homeStretchCell(color, i - (CircuitLen - 1)), isSafe |-> TRUE]]

\* the path as the array it is
getPlayerPathSeq(color) == [i \in 1..PathLen |-> getPlayerPath(color)[i - 1]]

getPlayerBase(color) == [id \in TokenIds |-> [cell |-> baseCell(color, id), isSafe |-> TRUE]]

\* Math.abs(a.x - b.x) < 0.1 && Math.abs(a.y - b.y) < 0.1: the same cell of the board
samePlace(a, b) == a.cell = b.cell

----------------------------------------------------------------------------
(* useLudoGame *)

NoneSelected == -1

initializeTokens ==
    [color \in Colors |-> [id \in TokenIds |-> [pathIndex |-> -1, isFinished |-> FALSE]]]

\* the hook's state as one record
Game == [tokens |-> tokens, currentPlayer |-> currentPlayer, diceValue |-> diceValue,
         rolling |-> rolling, hasRolled |-> hasRolled, selectedToken |-> selectedToken,
         winner |-> winner, timers |-> timers, rolls |-> rolls, resets |-> resets,
         moved |-> moved]

Render(g) ==
    /\ tokens' = g.tokens
    /\ currentPlayer' = g.currentPlayer
    /\ diceValue' = g.diceValue
    /\ rolling' = g.rolling
    /\ hasRolled' = g.hasRolled
    /\ selectedToken' = g.selectedToken
    /\ winner' = g.winner
    /\ timers' = g.timers
    /\ rolls' = g.rolls
    /\ resets' = g.resets
    /\ moved' = g.moved
    /\ UNCHANGED <<socketVars, lobbyVars>>

getTokenPosition(color, id, token) ==
    IF token.isFinished
    THEN getPlayerPath(color)[PathLen - 1]
    ELSE IF token.pathIndex = -1
    THEN getPlayerBase(color)[id]
    ELSE getPlayerPath(color)[token.pathIndex]

\* as canMoveToken, but a token in base comes out on any dice
canMoveTokenAnyDice(token, diceVal) ==
    IF token.isFinished THEN FALSE
    ELSE IF token.pathIndex = -1 THEN TRUE
    ELSE token.pathIndex + diceVal <= PathLen - 1

\* as canMoveToken, but a move onto the home cell itself is refused
canMoveTokenShortOfHome(token, diceVal) ==
    IF token.isFinished THEN FALSE
    ELSE IF token.pathIndex = -1 THEN diceVal = 6
    ELSE token.pathIndex + diceVal < PathLen - 1

canMoveToken(token, diceVal) ==
    IF token.isFinished THEN FALSE
    ELSE IF token.pathIndex = -1 THEN diceVal = 6
    ELSE token.pathIndex + diceVal <= PathLen - 1

\* the ids of the colour's tokens that can move, of the tokens toks
getMovableTokens(toks, color, diceVal) ==
    {id \in TokenIds : canMoveToken(toks[color][id], diceVal)}

\* the token stands on the board at the position
standsAt(color, id, token, position) ==
    /\ token.pathIndex # -1
    /\ ~token.isFinished
    /\ samePlace(getTokenPosition(color, id, token), position)

\* the other colours with a token at the position, by their place in PLAYERS
occupants(toks, color, position) ==
    {i \in DOMAIN PLAYERS :
        /\ PLAYERS[i] # color
        /\ \E id \in TokenIds : standsAt(PLAYERS[i], id, toks[PLAYERS[i]][id], position)}

\* as checkForCapture, without the test of the safe flag
checkForCaptureAnywhere(toks, color, position) ==
    LET found == occupants(toks, color, position)
    IN  IF found = {} THEN Null
        ELSE PLAYERS[CHOOSE i \in found : \A j \in found : i <= j]

\* the first other colour found at the position, unless the position is safe
checkForCapture(toks, color, position) ==
    IF position.isSafe THEN Null
    ELSE LET found == occupants(toks, color, position)
         IN  IF found = {} THEN Null
             ELSE PLAYERS[CHOOSE i \in found : \A j \in found : i <= j]

\* setTimeout: the timer is pending, marked with the game it was set in
setTimeout(g, timer) ==
    [g EXCEPT !.timers = Append(@, timer @@ [game |-> g.resets])]

rollDice(g) ==
    IF g.rolling \/ g.hasRolled \/ g.winner # Null
    THEN g
    ELSE setTimeout([g EXCEPT !.rolling = TRUE,
                              !.selectedToken = NoneSelected,
                              !.rolls = @ + 1],
                    [kind |-> "roll", delay |-> 500,
                     currentPlayer |-> g.currentPlayer, tokens |-> g.tokens])

\* nextTurn of the render in which the current player was `player`
nextTurn(g, player, gotSix) ==
    LET g1 == IF ~gotSix
              THEN [g EXCEPT !.currentPlayer = PLAYERS[(indexOf(player) % 4) + 1]]
              ELSE g
    IN  [g1 EXCEPT !.hasRolled = FALSE, !.selectedToken = NoneSelected]

\* the callback of rollDice's timeout, the dice showing value
rollResult(g, timer, value) ==
    LET g1 == [g EXCEPT !.diceValue = value, !.rolling = FALSE, !.hasRolled = TRUE,
                        !.moved = 0]
        movableTokens == getMovableTokens(timer.tokens, timer.currentPlayer, value)
    IN  IF Cardinality(movableTokens) = 0
        THEN setTimeout(g1, [kind |-> "noMove", delay |-> 1500,
                             currentPlayer |-> timer.currentPlayer])
        ELSE IF Cardinality(movableTokens) = 1
        THEN [g1 EXCEPT !.selectedToken = CHOOSE id \in movableTokens : TRUE]
        ELSE g1

\* the callback of the timeout for a roll without moves
noMoveTimeout(g, timer) == nextTurn(g, timer.currentPlayer, FALSE)

\* as captureAll, but the tokens go a lap back instead of to base
captureLapBack(toks, capturedColor, newPosition) ==
    IF capturedColor = Null THEN toks
    ELSE [toks EXCEPT ![capturedColor] =
            [id \in TokenIds |->
                IF standsAt(capturedColor, id, toks[capturedColor][id], newPosition)
                THEN [toks[capturedColor][id] EXCEPT !.pathIndex = @ - CircuitLen]
                ELSE toks[capturedColor][id]]]

\* as captureAll, but the first token found only
captureFirst(toks, capturedColor, newPosition) ==
    IF capturedColor = Null THEN toks
    ELSE LET found == {id \in TokenIds :
                         standsAt(capturedColor, id, toks[capturedColor][id], newPosition)}
         IN  IF found = {} THEN toks
             ELSE LET first == CHOOSE id \in found : \A other \in found : id <= other
                  IN  [toks EXCEPT ![capturedColor][first].pathIndex = -1]

\* as captureAll, but every token of the captured colour on the board goes back
captureColour(toks, capturedColor, newPosition) ==
    IF capturedColor = Null THEN toks
    ELSE [toks EXCEPT ![capturedColor] =
            [id \in TokenIds |->
                IF toks[capturedColor][id].pathIndex # -1 /\ ~toks[capturedColor][id].isFinished
                THEN [toks[capturedColor][id] EXCEPT !.pathIndex = -1]
                ELSE toks[capturedColor][id]]]

\* as captureAll, but the captured tokens are marked finished
captureAndFinish(toks, capturedColor, newPosition) ==
    IF capturedColor = Null THEN toks
    ELSE [toks EXCEPT ![capturedColor] =
            [id \in TokenIds |->
                IF standsAt(capturedColor, id, toks[capturedColor][id], newPosition)
                THEN [pathIndex |-> -1, isFinished |-> TRUE]
                ELSE toks[capturedColor][id]]]

\* the capture of the setTokens updater: the tokens of the captured colour
\* standing at the new position go back to base
captureAll(toks, capturedColor, newPosition) ==
    IF capturedColor = Null THEN toks
    ELSE [toks EXCEPT ![capturedColor] =
            [id \in TokenIds |->
                IF standsAt(capturedColor, id, toks[capturedColor][id], newPosition)
                THEN [toks[capturedColor][id] EXCEPT !.pathIndex = -1]
                ELSE toks[capturedColor][id]]]

\* tokens[currentPlayer][tokenId] is undefined for an id that is no index of
\* the array, and canMoveToken reads token.isFinished: a TypeError is thrown
moveTokenThrows(g, tokenId) ==
    /\ ~(~g.hasRolled \/ g.winner # Null)
    /\ tokenId \notin TokenIds

\* the state is left as it is when the call throws
moveToken(g, tokenId) ==
    IF ~g.hasRolled \/ g.winner # Null THEN g
    ELSE IF moveTokenThrows(g, tokenId) THEN g
    ELSE LET token == g.tokens[g.currentPlayer][tokenId]
         IN  IF ~canMoveToken(token, g.diceValue) THEN g
             ELSE LET path == getPlayerPath(g.currentPlayer)
                      newPathIndex == IF token.pathIndex = -1 THEN 0
                                      ELSE token.pathIndex + g.diceValue
                      newPosition == path[newPathIndex]
                      isFinishing == newPathIndex = PathLen - 1
                      capturedColor == IF ~isFinishing
                                       THEN checkForCapture(g.tokens, g.currentPlayer, newPosition)
                                       ELSE Null
                      own == [g.tokens EXCEPT ![g.currentPlayer][tokenId] =
                                 [pathIndex |-> newPathIndex, isFinished |-> isFinishing]]
                      updated == captureAll(own, capturedColor, newPosition)
                      gotBonus == capturedColor # Null /\ updated # own
                  IN  setTimeout([g EXCEPT !.tokens = updated,
                                           !.moved = IF @ < 2 THEN @ + 1 ELSE @],
                                 [kind |-> "move", delay |-> 300,
                                  currentPlayer |-> g.currentPlayer, tokens |-> g.tokens,
                                  tokenId |-> tokenId, newPathIndex |-> newPathIndex,
                                  isFinishing |-> isFinishing, capturedColor |-> capturedColor,
                                  gotBonus |-> gotBonus, diceValue |-> g.diceValue])

\* the win check of moveToken's timeout
allFinished(timer) ==
    \A id \in TokenIds :
        \/ timer.tokens[timer.currentPlayer][id].isFinished
        \/ (id = timer.tokenId /\ timer.newPathIndex = PathLen - 1)

\* the argument of nextTurn in moveToken's timeout
turnKept(timer) == timer.diceValue = 6 \/ timer.gotBonus \/ timer.isFinishing

\* the callback of moveToken's timeout
moveTimeout(g, timer) ==
    IF allFinished(timer)
    THEN [g EXCEPT !.winner = timer.currentPlayer]
    ELSE nextTurn(g, timer.currentPlayer, turnKept(timer))

\* as selectToken, but the first click moves the token
selectTokenMoving(g, tokenId) ==
    IF ~g.hasRolled \/ g.winner # Null THEN g
    ELSE IF tokenId \notin getMovableTokens(g.tokens, g.currentPlayer, g.diceValue) THEN g
    ELSE moveToken(g, tokenId)

selectToken(g, tokenId) ==
    IF ~g.hasRolled \/ g.winner # Null THEN g
    ELSE IF tokenId \notin getMovableTokens(g.tokens, g.currentPlayer, g.diceValue) THEN g
    ELSE IF g.selectedToken = tokenId THEN moveToken(g, tokenId)
    ELSE [g EXCEPT !.selectedToken = tokenId]

\* the timeouts pending are not cleared
resetGame(g) ==
    [g EXCEPT !.tokens = initializeTokens,
              !.currentPlayer = "red",
              !.diceValue = 1,
              !.rolling = FALSE,
              !.hasRolled = FALSE,
              !.selectedToken = NoneSelected,
              !.winner = Null,
              !.resets = @ + 1]

\* useState initial values
GameInit ==
    /\ tokens = initializeTokens
    /\ currentPlayer = "red"
    /\ diceValue = 1
    /\ rolling = FALSE
    /\ hasRolled = FALSE
    /\ selectedToken = NoneSelected
    /\ winner = Null
    /\ timers = << >>
    /\ rolls = 0
    /\ resets = 0
    /\ moved = 0

----------------------------------------------------------------------------
(* Initial state and steps *)

SocketInit ==
    /\ ws = 0
    /\ roomCode = NullCode
    /\ pendingRoomCode = NullCode
    /\ reconnectAttempts = 0
    /\ reconnectTimeout = "null"
    /\ isAuthenticated = FALSE
    /\ transports = << >>
    /\ orphanTimers = 0
    /\ openConts = 0
    /\ connectionState = "disconnected"
    /\ error = Null
    /\ userId = Null
    /\ gameState = NullState
    /\ isRolling = FALSE
    /\ diceAnimationValue = 1
    /\ wire = NoWire
    /\ authFailed = FALSE
    /\ retries = 0
    /\ retryDelay = 0
    /\ rollsSent = 0
    /\ connects = 0

\* no room has been created
LobbyInit ==
    /\ randomArray = << >>
    /\ newRoomCode = NullCode

Init == SocketInit /\ GameInit /\ LobbyInit

\* the user joins a room
ConnectToRoom(code, maxT) ==
    /\ numCreated(Cur) < maxT
    /\ Commit(connectToRoom(Cur, code))

\* the user leaves
StoreDisconnect == Commit(storeDisconnect(Cur))

SetAuth(u) == Commit([Cur EXCEPT !.userId = u])

RollDiceIntent == Commit(storeRollDice(Cur))

MoveTokenIntent(tokenIndex) == Commit(storeMoveToken(Cur, tokenIndex))

\* the connection of transport t is established: its open event
WsOpen(t) ==
    /\ transports[t].readyState = "CONNECTING"
    /\ Commit(onopen([Cur EXCEPT !.transports[t].readyState = "OPEN"]))

\* getSession() resolves and a suspended onopen resumes
OpenResume(token) ==
    /\ openConts > 0
    /\ Commit(onopenResume(Cur, token))

\* a server message is delivered on open transport t; the server accepts
\* or rejects an authentication only where it was sent an AUTH
WsMessage(t, data) ==
    /\ transports[t].readyState = "OPEN"
    /\ data \in {AuthSuccess, ErrUnauthorized} => transports[t].authSent
    /\ Commit(onmessage([Cur EXCEPT !.transports[t].acked = @ \/ data = AuthSuccess], data))

\* transport t is closed (by the server, the network, or the end of the
\* closing handshake): error event if the connection failed, then close event
WsClose(t, failed) ==
    /\ transports[t].readyState \in {"CONNECTING", "OPEN", "CLOSING"}
    /\ LET s0 == [Cur EXCEPT !.transports[t] = ClosedTransport]
       IN  Commit(onclose(IF failed THEN onerror(s0) ELSE s0))

\* the reconnect timer held in this.reconnectTimeout fires
ReconnectTimer(maxT) ==
    /\ reconnectTimeout = "pending"
    /\ roomCode # NullCode => numCreated(Cur) < maxT
    /\ Commit(createConnection([Cur EXCEPT !.reconnectTimeout = "fired"]))

\* a reconnect timer whose handle was overwritten fires
OrphanTimer(maxT) ==
    /\ orphanTimers > 0
    /\ roomCode # NullCode => numCreated(Cur) < maxT
    /\ Commit(createConnection([Cur EXCEPT !.orphanTimers = @ - 1]))

\* the events of the browser: transports, getSession(), timers
Events(maxT) ==
    \/ \E t \in TransportIds : WsOpen(t)
    \/ \E token \in TokenResults : OpenResume(token)
    \/ \E t \in TransportIds, data \in ServerMessages : WsMessage(t, data)
    \/ \E t \in TransportIds, failed \in BOOLEAN : WsClose(t, failed)
    \/ ReconnectTimer(maxT)

\* the store's intents
Intents ==
    \/ SetAuth("u1")
    \/ RollDiceIntent
    \/ \E i \in TokenInputs : MoveTokenIntent(i)

\* the first connect() of a run
ConnectFirst(code, maxT) ==
    /\ connects = 0
    /\ ConnectToRoom(code, maxT)

\* joining and leaving rooms, in any interleaving with the events
Session(maxT) ==
    \/ \E code \in RoomInputs : ConnectToRoom(code, maxT)
    \/ StoreDisconnect
    \/ Events(maxT)
    \/ OrphanTimer(maxT)

Next == Session(MaxTransports)

Spec == Init /\ [][Next]_vars

\* RaceSpec: the same steps, with one more transport
RaceNext == Session(MaxRaceTransports)

RaceSpec == Init /\ [][RaceNext]_vars

\* StoreSpec: one connection, with the player's intents
StoreNext ==
    \/ \E code \in RoomInputs : ConnectFirst(code, MaxStoreTransports)
    \/ StoreDisconnect
    \/ Events(MaxStoreTransports)
    \/ Intents

StoreSpec == Init /\ [][StoreNext]_vars

\* RetrySpec: one connection losing its transport again and again
RetryNext ==
    \/ \E code \in RoomInputs : ConnectFirst(code, MaxRetryTransports)
    \/ StoreDisconnect
    \/ Events(MaxRetryTransports)

RetrySpec == Init /\ [][RetryNext]_vars

----------------------------------------------------------------------------
(* The steps of the local game *)

\* Math.floor(Math.random() * 6) + 1
DiceValues == 1..6

\* the tokens the user clicks
ClickedTokens == {0, 1}

\* the ids moveToken is called with: those, and one that is no token's
CalledTokens == ClickedTokens \cup {4}

\* the timers but the i-th
without(g, i) ==
    [g EXCEPT !.timers = SubSeq(@, 1, i - 1) \o SubSeq(@, i + 1, Len(@))]

\* the i-th timer is due: no timer set before it with a delay as short or
\* shorter is still pending
due(i, kind) ==
    /\ i \in DOMAIN timers
    /\ timers[i].kind = kind
    /\ \A j \in 1..(i - 1) : timers[j].delay > timers[i].delay

\* the user's clicks come while few timers are pending
fewPending == Len(timers) < MaxPending

\* a click on the dice
RollDice(maxRolls) ==
    /\ rolls < maxRolls
    /\ fewPending
    /\ Render(rollDice(Game))

\* the dice stops
RollResult(i, value) ==
    /\ due(i, "roll")
    /\ Render(rollResult(without(Game, i), timers[i], value))

NoMoveTimeout(i) ==
    /\ due(i, "noMove")
    /\ Render(noMoveTimeout(without(Game, i), timers[i]))

\* a click on a token
SelectToken(tokenId) ==
    /\ fewPending
    /\ Render(selectToken(Game, tokenId))

MoveToken(tokenId) ==
    /\ fewPending
    /\ Render(moveToken(Game, tokenId))

MoveTimeout(i) ==
    /\ due(i, "move")
    /\ Render(moveTimeout(without(Game, i), timers[i]))

ResetGame(maxResets) ==
    /\ resets < maxResets
    /\ Render(resetGame(Game))

Play(maxRolls, maxResets) ==
    \/ RollDice(maxRolls)
    \/ \E i \in DOMAIN timers, value \in DiceValues : RollResult(i, value)
    \/ \E i \in DOMAIN timers : NoMoveTimeout(i)
    \/ \E tokenId \in ClickedTokens : SelectToken(tokenId)
    \/ \E tokenId \in CalledTokens : MoveToken(tokenId)
    \/ \E i \in DOMAIN timers : MoveTimeout(i)
    \/ ResetGame(maxResets)

----------------------------------------------------------------------------
(* Room creation *)

\* values of crypto.getRandomValues: the first index, indexes either side of
\* the letters and digits left out, one past the last index, and the largest
\* value held here (the index depends on the low five bits only)
RandomValues == {0, 8, 13, 24, 32, 2147483647}

\* the lobby's handleCreateRoom, up to the code it passes on
HandleCreateRoom ==
    /\ newRoomCode = NullCode
    /\ newRoomCode' = generateRoomCode(randomArray)
    /\ UNCHANGED <<randomArray, socketVars, engineVars>>

CodeInit ==
    /\ SocketInit
    /\ GameInit
    /\ randomArray \in [1..6 -> RandomValues]
    /\ newRoomCode = NullCode

CodeNext == HandleCreateRoom

\* CodeSpec: a room code generated from every array of these values
CodeSpec == CodeInit /\ [][CodeNext]_vars

----------------------------------------------------------------------------
\* GameSpec: a game from its start
GameNext == Play(MaxRolls, MaxResets)

GameSpec == Init /\ [][GameNext]_vars

\* positions of a game under way, each reached from the start by the rolls
\* and moves named
onBoard(i) == [pathIndex |-> i, isFinished |-> FALSE]
finished == [pathIndex |-> PathLen - 1, isFinished |-> TRUE]

\* red has brought three tokens home and its last one out with a six and on
\* with another six: red rolls again
Endgame ==
    [tokens |-> [initializeTokens EXCEPT
                    !["red"] = [id \in TokenIds |-> IF id = 0 THEN onBoard(CircuitLen - 2)
                                                    ELSE finished]],
     currentPlayer |-> "red", diceValue |-> 6]

\* green has brought two tokens one cell past its start; red has just come
\* out with a six and rolls again
Stacked ==
    [tokens |-> [initializeTokens EXCEPT
                    !["green"][0] = onBoard(1), !["green"][1] = onBoard(1),
                    !["red"][0] = onBoard(0)],
     currentPlayer |-> "red", diceValue |-> 6]

\* green has walked the circuit up to the cell before its home stretch, red's
\* start cell; the turn has come round to red after rolls without moves
AtRedStart ==
    [tokens |-> [initializeTokens EXCEPT !["green"][0] = onBoard(CircuitLen - 2)],
     currentPlayer |-> "red", diceValue |-> 3]

\* green has one token one cell past its start and another two cells on; red
\* has just come out with a six and rolls again
Spread ==
    [tokens |-> [initializeTokens EXCEPT
                    !["green"][0] = onBoard(1), !["green"][1] = onBoard(3),
                    !["red"][0] = onBoard(0)],
     currentPlayer |-> "red", diceValue |-> 6]

Scenarios == {Endgame, Stacked, AtRedStart, Spread}

ScenarioInit ==
    /\ SocketInit
    /\ LobbyInit
    /\ \E sc \in Scenarios :
          /\ tokens = sc.tokens
          /\ currentPlayer = sc.currentPlayer
          /\ diceValue = sc.diceValue
    /\ rolling = FALSE
    /\ hasRolled = FALSE
    /\ selectedToken = NoneSelected
    /\ winner = Null
    /\ timers = << >>
    /\ rolls = 0
    /\ resets = 0
    /\ moved = 0

\* ScenarioSpec: the game from these positions
ScenarioNext == Play(MaxScenarioRolls, MaxScenarioResets)

ScenarioSpec == ScenarioInit /\ [][ScenarioNext]_vars

----------------------------------------------------------------------------
(* Handshake order *)

\* the message the last step transmitted, and the transport it went out on
sentType == wire.msg.type

\* C1: a JOIN_ROOM is transmitted on a transport only after an AUTH_SUCCESS
\* was received on that same transport.
C1_JoinOnlyAfterAck ==
    sentType = "JOIN_ROOM" => transports[wire.t].acked

\* C2: whatever is transmitted on a transport other than AUTH (JOIN_ROOM,
\* ROLL_DICE, MOVE_TOKEN) goes out after an AUTH was sent on that transport.
C2_AuthIsFirstMessage ==
    sentType \in {"JOIN_ROOM", "ROLL_DICE", "MOVE_TOKEN"} => transports[wire.t].authSent

\* C3: no transport carries a second JOIN_ROOM, and a JOIN_ROOM carries the
\* pending room code.
C3_OneJoinPerTransport ==
    /\ \A t \in TransportIds : transports[t].joins <= 1
    /\ sentType = "JOIN_ROOM" => wire.msg.roomCode = pendingRoomCode

----------------------------------------------------------------------------
(* Reconnection *)

ConnectionLost == "Connection lost. Please rejoin the game."

\* the close event of some transport is delivered in this step
CloseEvent == \E t \in TransportIds, failed \in BOOLEAN : WsClose(t, failed)

\* a reconnect timer is scheduled by this step
RetryScheduled == retries' = retries + 1

\* C4: after a connect() at most maxReconnectAttempts retries are scheduled,
\* and a loss with the attempts exhausted reports 'disconnected' with the
\* connection-lost error and schedules nothing.
C4_ReconnectionBounded ==
    [][ /\ retries' <= maxReconnectAttempts
        /\ (CloseEvent /\ reconnectAttempts >= maxReconnectAttempts) =>
              /\ connectionState' = "disconnected"
              /\ error' = ConnectionLost
              /\ ~RetryScheduled
              /\ reconnectTimeout' = reconnectTimeout
              /\ orphanTimers' = orphanTimers ]_vars

\* the sixth loss of one connection: five retries were used, the room code
\* is still held, and the terminal failure is shown
C4_Exhausted ==
    /\ retries = maxReconnectAttempts
    /\ roomCode # NullCode
    /\ reconnectTimeout = "fired"
    /\ connectionState = "disconnected"
    /\ error = ConnectionLost

\* a snapshot is delivered in this step
SnapshotEvent == \E t \in TransportIds, data \in Snapshots : WsMessage(t, data)

\* C5: the receipt of a snapshot resets the reconnect attempt counter to 0.
C5_SnapshotResetsAttempts ==
    [][ SnapshotEvent => reconnectAttempts' = 0 ]_vars

\* C6: while the connection is explicitly closed (this.roomCode is null:
\* only disconnect() and the constructor leave it so) no step constructs a
\* transport or reports 'connecting' or 'reconnecting'.
C6_NoResurrection ==
    [][ roomCode' = NullCode =>
          /\ Len(transports') = Len(transports)
          /\ connectionState' \notin {"connecting", "reconnecting"} ]_vars

\* after a disconnect() a reconnect timer that it could not cancel is still
\* pending, and the close of an earlier transport was reported
C6_StaleRetryPending ==
    /\ connects > 0
    /\ roomCode = NullCode
    /\ orphanTimers > 0
    /\ connectionState = "disconnected"

\* an AUTH_SUCCESS is received in this step on a transport constructed after
\* every transport that has delivered its close event
AckOnLaterTransport ==
    \E t \in TransportIds :
        /\ WsMessage(t, AuthSuccess)
        /\ \A u \in TransportIds : transports[u].readyState = "CLOSED" => u < t

\* C7: a loss while a room code is held enters 'reconnecting' and keeps the
\* room code; isAuthenticated is false from the close event until an
\* AUTH_SUCCESS arrives on a later transport; a JOIN_ROOM carries the room code.
C7_ReconnectKeepsRoomNotAuth ==
    [][ /\ (CloseEvent /\ roomCode # NullCode) =>
              /\ connectionState' = "reconnecting"
              /\ roomCode' = roomCode
              /\ ~isAuthenticated'
        /\ (~isAuthenticated /\ isAuthenticated') => AckOnLaterTransport
        /\ wire'.msg.type = "JOIN_ROOM" => wire'.msg.roomCode = roomCode' ]_vars

\* C8: once an authentication failure was reported, and until the next
\* connect(), no transport is constructed and no AUTH is transmitted.
C8_AuthFailureTerminal ==
    [][ (authFailed /\ authFailed') =>
          /\ Len(transports') = Len(transports)
          /\ wire'.msg.type # "AUTH" ]_vars

----------------------------------------------------------------------------
(* Snapshots *)

\* C9: a snapshot delivered on an open transport, in whatever connection
\* state and authenticated or not, makes the connection state 'in_game' and
\* becomes the store's game state.
C9_SnapshotEntersGame ==
    [][ \A t \in TransportIds, data \in Snapshots :
          WsMessage(t, data) => (connectionState' = "in_game" /\ gameState' = data) ]_vars

\* a snapshot was accepted without any authentication acknowledgment
C9_InGameUnauthenticated ==
    /\ connectionState = "in_game"
    /\ gameState \in Snapshots
    /\ ~isAuthenticated
    /\ \A t \in TransportIds : ~transports[t].acked

\* the store's fields that a snapshot writes
storeOf(s) == <<s.gameState, s.isRolling, s.diceAnimationValue>>

\* C10: applied to the state held, whatever it is, a snapshot becomes the
\* game state as it is, and applying it again changes nothing.
C10_SnapshotReplaces ==
    \A data \in Snapshots :
        LET once == onStateUpdate(Cur, data)
        IN  /\ once.gameState = data
            /\ storeOf(once) = storeOf(onStateUpdate([Cur EXCEPT !.gameState = NullState], data))
            /\ onStateUpdate(once, data) = once

\* a snapshot with dice and movable tokens is held: the snapshot applied
\* next, which has neither, has fields of the old state to get rid of
C10_SnapshotHeld ==
    /\ gameState = SnapMove
    /\ diceAnimationValue = 6
    /\ ~isRolling
    /\ connectionState = "in_game"

----------------------------------------------------------------------------
(* Intents *)

\* the store calls onAuthRequired in this step
AuthRequiredEvent ==
    \/ OpenResume(NoToken)
    \/ \E t \in TransportIds : WsMessage(t, ErrUnauthorized)

\* C11: rollDice and moveToken leave gameState as it is; gameState changes
\* only when a snapshot is received, on the store's disconnect, or when
\* authentication is required.
C11_GameStateFromServerOnly ==
    [][ /\ (RollDiceIntent \/ \E i \in TokenInputs : MoveTokenIntent(i)) =>
               gameState' = gameState
        /\ gameState' # gameState =>
               (SnapshotEvent \/ StoreDisconnect \/ AuthRequiredEvent) ]_vars

\* a ROLL_DICE intent was just transmitted and the snapshot is still the one held
C11_IntentSent ==
    /\ sentType = "ROLL_DICE"
    /\ isRolling
    /\ gameState = SnapRoll

InvalidToken == "Invalid token selection."
InvalidRoomCode == "Invalid room code format. Must be 4-6 alphanumeric characters."

\* the store's moveToken gets as far as calling send()
MoveReachesSend ==
    /\ gameState # NullState
    /\ gameState.phase = "MOVE"
    /\ gameState.currentTurn = userId

\* the transport held is open
TransportOpen == ws # 0 /\ transports[ws].readyState = "OPEN"

\* a room code of 4 to 6 upper-case letters or digits
WellFormedRoomCode(code) ==
    /\ Len(code) \in 4..6
    /\ \A i \in 1..Len(code) : code[i] \in Range(UpperLetters) \cup Range(Digits)

\* what was transmitted is well formed
WellFormedOnWire ==
    /\ sentType = "MOVE_TOKEN" => wire.msg.tokenIndex \in 0..3
    /\ sentType = "JOIN_ROOM" => WellFormedRoomCode(wire.msg.roomCode)

\* the socket's own fields
socketOf(s) == <<s.ws, s.roomCode, s.pendingRoomCode, s.reconnectAttempts,
                 s.reconnectTimeout, s.transports>>

\* send() given an ill-formed message by the handler that ended in state r:
\* nothing is transmitted, the socket's fields are as before, and the error
\* shown is err
Dropped(r, err) ==
    /\ r.wire = NoWire
    /\ socketOf(r) = socketOf(Cur)
    /\ r.error = err

\* the socket holds a room code that is not well formed, and an AUTH_SUCCESS
\* can arrive (on an open transport that was sent an AUTH)
IllFormedRoomPending ==
    /\ pendingRoomCode # NullCode
    /\ ~WellFormedRoomCode(pendingRoomCode)
    /\ \E t \in TransportIds : transports[t].readyState = "OPEN" /\ transports[t].authSent

\* C12 as claimed: an ill-formed MOVE_TOKEN or JOIN_ROOM is never
\* transmitted; given one (by the store's moveToken, by the AUTH_SUCCESS
\* handler), send() calls the error callback and leaves the socket's fields
\* unchanged.
C12_InvalidDroppedWithError ==
    /\ WellFormedOnWire
    /\ \A i \in TokenInputs \ (0..3) : MoveReachesSend =>
           LET r == storeMoveToken(Cur, i)
           IN  Dropped(r, InvalidToken) /\ r.isAuthenticated = isAuthenticated
    /\ IllFormedRoomPending => Dropped(onmessage(Cur, AuthSuccess), InvalidRoomCode)

\* C12 amended: the error callback is called when the transport held is
\* open; otherwise the message is dropped without any callback.
C12_InvalidDropped ==
    /\ WellFormedOnWire
    /\ \A i \in TokenInputs \ (0..3) : MoveReachesSend =>
           LET r == storeMoveToken(Cur, i)
           IN  /\ Dropped(r, IF TransportOpen THEN InvalidToken ELSE error)
               /\ r.isAuthenticated = isAuthenticated
    /\ IllFormedRoomPending =>
           Dropped(onmessage(Cur, AuthSuccess),
                   IF TransportOpen THEN InvalidRoomCode ELSE error)

\* an out-of-range token index was refused on an open transport
C12_TokenRefused ==
    /\ error = InvalidToken
    /\ wire = NoWire
    /\ TransportOpen
    /\ MoveReachesSend

----------------------------------------------------------------------------
(* The local game: coordinates *)

pathIndexOf(c, id) == tokens[c][id].pathIndex

\* C13: every token's pathIndex lies in [-1, N-1], N the length of its
\* colour's path.
C13_PathIndexInRange ==
    \A c \in Colors, id \in TokenIds :
        pathIndexOf(c, id) \in -1..(Len(getPlayerPathSeq(c)) - 1)

\* the dice of the player to move would take a token beyond its home cell
C13_OvershootRefused ==
    /\ hasRolled
    /\ \E id \in TokenIds :
          /\ pathIndexOf(currentPlayer, id) >= 0
          /\ pathIndexOf(currentPlayer, id) + diceValue > PathLen - 1

\* the step is not a resetGame
SameGame == resets' = resets

\* token id of colour c is moved by its owner with the dice shown
OwnMove(c, id) ==
    /\ c = currentPlayer
    /\ hasRolled
    /\ \/ pathIndexOf(c, id) = -1 /\ tokens'[c][id].pathIndex = 0 /\ diceValue = 6
       \/ pathIndexOf(c, id) >= 0 /\ tokens'[c][id].pathIndex = pathIndexOf(c, id) + diceValue

\* token id of colour c is captured by the player to move
CapturedByOpponent(c, id) ==
    /\ c # currentPlayer
    /\ pathIndexOf(c, id) >= 0
    /\ tokens'[c][id].pathIndex = -1

\* C14: within a game a pathIndex changes only from -1 to 0 by its owner's
\* move on a six, from i to i + dice by its owner's move, or to -1 by an
\* opponent's capture; a finished token does not change.
C14_CoordinateChanges ==
    [][ SameGame =>
          \A c \in Colors, id \in TokenIds :
              /\ tokens'[c][id].pathIndex # pathIndexOf(c, id) =>
                     (OwnMove(c, id) \/ CapturedByOpponent(c, id))
              /\ tokens[c][id].isFinished => tokens'[c][id] = tokens[c][id] ]_vars

\* a token has come out and moved on, and another has been captured since
C14_MovedAndCaptured ==
    /\ \E c \in Colors, id \in TokenIds : pathIndexOf(c, id) > 0
    /\ \E i \in DOMAIN timers : timers[i].kind = "move" /\ timers[i].gotBonus
    /\ resets = 0

\* C15: the board changes only in the move phase (a dice result is shown, no
\* winner), and only once for each dice result.
C15_OneMovePerRoll ==
    [][ (SameGame /\ tokens' # tokens) =>
          (hasRolled /\ ~rolling /\ winner = Null /\ moved = 0) ]_vars

nextColor(c) == PLAYERS[(indexOf(c) % 4) + 1]

\* the move whose timeout is timer captured a token: it landed, not at home,
\* on a cell that is not safe where another colour stood
capturing(timer) ==
    LET landing == getPlayerPath(timer.currentPlayer)[timer.newPathIndex]
    IN  /\ timer.newPathIndex # PathLen - 1
        /\ ~landing.isSafe
        /\ occupants(timer.tokens, timer.currentPlayer, landing) # {}

\* the move whose timeout is timer finished its token
finishing(timer) == timer.newPathIndex = PathLen - 1

\* the move whose timeout is timer brought home the last token of its colour
winning(timer) ==
    /\ finishing(timer)
    /\ \A id \in TokenIds \ {timer.tokenId} :
          timer.tokens[timer.currentPlayer][id].pathIndex = PathLen - 1

\* C16: in a game never reset, when the turn of a move that did not win is resolved, the mover
\* keeps the turn if the dice was 6 or the move captured or finished a
\* token, the next colour gets it otherwise; the dice is to be rolled again.
C16_TurnAfterMove ==
    [][ \A i \in DOMAIN timers :
          (MoveTimeout(i) /\ resets = 0 /\ ~winning(timers[i])) =>
              /\ currentPlayer' =
                    IF timers[i].diceValue = 6 \/ capturing(timers[i]) \/ finishing(timers[i])
                    THEN timers[i].currentPlayer
                    ELSE nextColor(timers[i].currentPlayer)
              /\ ~hasRolled' ]_vars

----------------------------------------------------------------------------
(* The local game: captures *)

\* token id of the player to move is moved by this step
MovedBy(id) ==
    /\ SameGame
    /\ tokens'[currentPlayer][id].pathIndex # pathIndexOf(currentPlayer, id)

\* where it lands
landingIndex(id) == tokens'[currentPlayer][id].pathIndex
landing(id) == getPlayerPath(currentPlayer)[landingIndex(id)]

\* the tokens of the other colours standing on the board at the position
standingAt(position) ==
    {<<c, j>> \in (Colors \ {currentPlayer}) \X TokenIds :
        /\ pathIndexOf(c, j) \in 0..(PathLen - 2)
        /\ getPlayerPath(c)[pathIndexOf(c, j)].cell = position.cell}

\* the tokens of other colours that stood where the move of the timer landed
standingAtIn(timer) ==
    {<<c, j>> \in (Colors \ {timer.currentPlayer}) \X TokenIds :
        /\ timer.tokens[c][j].pathIndex \in 0..(PathLen - 2)
        /\ getPlayerPath(c)[timer.tokens[c][j].pathIndex].cell =
              getPlayerPath(timer.currentPlayer)[timer.newPathIndex].cell}

\* C17: a move landing on a cell that is neither safe nor the home cell
\* sends every token of every other colour standing there back to base.
C17_CaptureAllThere ==
    [][ \A id \in TokenIds :
          (MovedBy(id) /\ ~landing(id).isSafe /\ landingIndex(id) # PathLen - 1) =>
              \A t \in standingAt(landing(id)) : tokens'[t[1]][t[2]].pathIndex = -1 ]_vars

\* red has landed where two green tokens stood, and both are back in base
C17_StackCaptured ==
    /\ pathIndexOf("red", 0) = QuarterLen + 1
    /\ pathIndexOf("green", 0) = -1
    /\ pathIndexOf("green", 1) = -1
    /\ \E i \in DOMAIN timers :
          /\ timers[i].kind = "move"
          /\ timers[i].capturedColor = "green"
          /\ Cardinality(standingAtIn(timers[i])) = 2

\* C18: a move landing on a safe cell, or finishing its token on the home
\* cell, changes no token of another colour.
C18_NoCaptureOnSafe ==
    [][ \A id \in TokenIds :
          (MovedBy(id) /\ (landing(id).isSafe \/ landingIndex(id) = PathLen - 1)) =>
              \A c \in Colors \ {currentPlayer} : tokens'[c] = tokens[c] ]_vars

\* red has come out onto its start cell, where a green token stands and stays
C18_SharedSafeCell ==
    /\ pathIndexOf("green", 0) = CircuitLen - 2
    /\ \E id \in TokenIds : pathIndexOf("red", id) = 0
    /\ \E i \in DOMAIN timers :
          /\ timers[i].kind = "move"
          /\ timers[i].currentPlayer = "red"
          /\ timers[i].newPathIndex = 0
          /\ timers[i].capturedColor = Null

----------------------------------------------------------------------------
(* The local game: winning *)

\* all four tokens of the colour are on its home cell
allHome(c) == \A id \in TokenIds : pathIndexOf(c, id) = PathLen - 1

\* C19: in every state a colour is the winner if and only if all four of
\* its tokens are on the home cell, the last of its path.
C19_WinnerIffAllHome ==
    \A c \in Colors : (winner = c) <=> allHome(c)

\* C20: the winner is set once and the end of the game is absorbing: while
\* a winner is set and the game is not reset, tokens, current player, dice
\* and winner keep their values, and the step that sets the winner leaves
\* the current player alone.
C20_EndAbsorbing ==
    [][ resets' = 0 =>
          /\ winner # Null => UNCHANGED <<tokens, currentPlayer, diceValue, winner>>
          /\ (winner = Null /\ winner' # Null) => currentPlayer' = currentPlayer ]_vars

----------------------------------------------------------------------------
(* The local game: the tokens that can move *)

\* the ids of the colour's tokens that the rules let move on a dice of d
movableByRule(c, d) ==
    {id \in TokenIds :
        \/ pathIndexOf(c, id) = -1 /\ d = 6
        \/ pathIndexOf(c, id) >= 0 /\ pathIndexOf(c, id) + d <= PathLen - 1}

\* C21: for every colour and dice value, the movable set is exactly the ids
\* of the colour's tokens in base when the dice is 6 and of those on the path
\* that the dice does not take beyond the home cell; no finished token is in it.
C21_MovableSet ==
    \A c \in Colors, d \in DiceValues :
        /\ getMovableTokens(tokens, c, d) = movableByRule(c, d)
        /\ \A id \in TokenIds :
              tokens[c][id].isFinished => id \notin getMovableTokens(tokens, c, d)

\* a roll resolved with some tokens of the roller movable and others not
C21_SomeMovable ==
    /\ hasRolled /\ ~rolling /\ moved = 0
    /\ getMovableTokens(tokens, currentPlayer, diceValue) \notin {{}, TokenIds}
    /\ \E id \in TokenIds : pathIndexOf(currentPlayer, id) + diceValue = PathLen - 1

----------------------------------------------------------------------------
(* The local game: a roll without moves *)

\* a timeout for a roll without moves is pending for the roller
noMovePending(tms, roller) ==
    \E j \in DOMAIN tms : tms[j].kind = "noMove" /\ tms[j].currentPlayer = roller

\* C22: a roll that leaves the roller without a movable token changes no
\* token and hands the turn to the next colour, back in the roll phase, on a
\* six as on any other value.
C22_NoMoveHandsOver ==
    [][ /\ \A i \in DOMAIN timers, value \in DiceValues :
              (/\ RollResult(i, value)
               /\ getMovableTokens(tokens, timers[i].currentPlayer, value) = {}) =>
                  /\ tokens' = tokens
                  /\ noMovePending(timers', timers[i].currentPlayer)
        /\ \A i \in DOMAIN timers :
              NoMoveTimeout(i) =>
                  /\ tokens' = tokens
                  /\ currentPlayer' = nextColor(timers[i].currentPlayer)
                  /\ ~hasRolled' ]_vars

----------------------------------------------------------------------------
(* The local game: illegal calls *)

\* C23: an illegal call is rejected and changes nothing: rollDice while a
\* roll is in progress or resolved, moveToken before a roll, for a token that
\* cannot move on the dice shown, or for an id that is no token's; the call
\* returns, it does not fail.
C23_IllegalCallsRejected ==
    /\ (rolling \/ hasRolled) => rollDice(Game) = Game
    /\ \A id \in CalledTokens :
          (\/ ~hasRolled
           \/ id \notin TokenIds
           \/ ~canMoveToken(tokens[currentPlayer][id], diceValue)) =>
              /\ moveToken(Game, id) = Game
              /\ ~moveTokenThrows(Game, id)

----------------------------------------------------------------------------
(* The local game: the roll phase *)

\* no dice value is held
diceCleared == diceValue \notin DiceValues

\* C24: once a move has been resolved, the engine is in the roll phase
\* (hasRolled false) if and only if no token is selected or movable and the
\* dice value has been cleared.
C24_RollPhaseCleared ==
    [][ \A i \in DOMAIN timers :
          MoveTimeout(i) =>
              ((~hasRolled') <=> (selectedToken' = NoneSelected /\ diceCleared')) ]_vars

----------------------------------------------------------------------------
(* The local game: rolling and selecting *)

\* a step of moveToken: the call itself, or a click on the token selected
MoveStep ==
    \/ \E id \in CalledTokens : MoveToken(id)
    \/ \E id \in ClickedTokens : SelectToken(id) /\ selectedToken = id

\* C25: rolling and selecting move no token: a click on the dice, the roll's
\* result with its auto-selection, and a first click on a token leave every
\* pathIndex as it is; within a game only moveToken changes the board.
C25_OnlyMoveTokenMoves ==
    [][ /\ (\/ RollDice(MaxRolls)
            \/ \E i \in DOMAIN timers, value \in DiceValues : RollResult(i, value)
            \/ \E id \in ClickedTokens : SelectToken(id) /\ selectedToken # id) =>
               tokens' = tokens
        /\ (SameGame /\ tokens' # tokens) => MoveStep ]_vars

\* a token picked by a click among several movable ones, and none moved
C25_SelectedNotMoved ==
    /\ hasRolled /\ moved = 0
    /\ selectedToken # NoneSelected
    /\ Cardinality(getMovableTokens(tokens, currentPlayer, diceValue)) > 1
    /\ timers = << >>

----------------------------------------------------------------------------
(* Room codes *)

\* the characters easily mistaken for one another
Confusable == {"0", "O", "1", "I"}

\* C26: whatever the random values, generateRoomCode returns 6 characters,
\* none of them 0, O, 1 or I, all of the alphabet, and the code satisfies
\* validateRoomCode.
C26_GeneratedCodeValid ==
    /\ Range(chars) \cap Confusable = {}
    /\ newRoomCode # NullCode =>
          /\ Len(newRoomCode) = 6
          /\ \A i \in DOMAIN newRoomCode :
                newRoomCode[i] \in Range(chars) \ Confusable
          /\ validateRoomCode(newRoomCode)

\* a code generated from the largest value, a wrapped one and the first
C26_CodeGenerated ==
    /\ newRoomCode = <<"9", "A", "A", "J", "P", "2">>
    /\ randomArray = <<2147483647, 32, 0, 8, 13, 24>>

----------------------------------------------------------------------------
(* Inconsistent snapshots *)

\* the snapshot names a colour that is none of red, green, yellow, blue
unknownColor(data) ==
    /\ Has(data, "players")
    /\ \E i \in DOMAIN data.players : data.players[i].color \notin Colors

\* C27: a snapshot naming an unknown colour is a protocol violation: when
\* one arrives in an authenticated session, it is not taken as the game state, and
\* an error is reported.
C27_UnknownColorRefused ==
    [][ \A t \in TransportIds, data \in Snapshots :
          (/\ WsMessage(t, data)
           /\ unknownColor(data)
           /\ isAuthenticated) =>
              /\ gameState' = gameState
              /\ error' # Null ]_vars

----------------------------------------------------------------------------
(* Reconnect delays *)

\* the reconnect timers pending: the one whose handle is held, and those
\* whose handle was overwritten
pendingRetryTimers == (IF reconnectTimeout = "pending" THEN 1 ELSE 0) + orphanTimers

\* C28: the k-th retry after a connect() is scheduled with a delay of
\* k x 2000 ms, longer than the one before it, and at no time is more than
\* one retry timer pending.
C28_LinearBackoff ==
    [][ /\ RetryScheduled =>
              /\ retryDelay' = retries' * 2000
              /\ retryDelay' > retryDelay
        /\ pendingRetryTimers' <= 1 ]_vars

----------------------------------------------------------------------------
(* The store's guards on the intents *)

\* a snapshot is held, in the phase given, and the turn is the local user's
myTurnIn(phase) ==
    /\ gameState # NullState
    /\ gameState.phase = phase
    /\ gameState.currentTurn = userId

\* C29: a ROLL_DICE is transmitted only from a state holding a snapshot in
\* the ROLL phase whose currentTurn is the local user, with isRolling false;
\* a MOVE_TOKEN only from one holding a snapshot in the MOVE phase whose
\* currentTurn is the local user; with no snapshot held neither is.
C29_IntentsGuarded ==
    [][ /\ wire'.msg.type = "ROLL_DICE" => (myTurnIn("ROLL") /\ ~isRolling)
        /\ wire'.msg.type = "MOVE_TOKEN" => myTurnIn("MOVE")
        /\ gameState = NullState => wire'.msg.type \notin {"ROLL_DICE", "MOVE_TOKEN"} ]_vars

\* a MOVE_TOKEN was transmitted in the local user's turn
C29_MoveSent ==
    /\ sentType = "MOVE_TOKEN"
    /\ myTurnIn("MOVE")

----------------------------------------------------------------------------
(* One roll per snapshot *)

\* C30: between two snapshots received one after the other at most one
\* ROLL_DICE is transmitted: once rollDice has set isRolling, a further
\* rollDice transmits nothing until a snapshot has cleared it.
C30_OneRollPerSnapshot ==
    /\ rollsSent <= 1
    /\ isRolling => storeRollDice(Cur) = Cur

\* a ROLL_DICE has been transmitted and no snapshot has come since
C30_RollAwaitingSnapshot ==
    /\ rollsSent = 1
    /\ isRolling
    /\ myTurnIn("ROLL")
    /\ ws # 0 /\ transports[ws].readyState = "OPEN"

----------------------------------------------------------------------------
(* The local game: what a move leaves alone *)

\* C31: a move changes the moved token and the opponent tokens it captures,
\* and no other: the mover's other tokens, and the opponent tokens in base,
\* finished or on another cell keep their pathIndex.
C31_MoveFrame ==
    [][ \A id \in TokenIds :
          MovedBy(id) =>
              /\ \A j \in TokenIds \ {id} :
                    tokens'[currentPlayer][j] = tokens[currentPlayer][j]
              /\ \A c \in Colors \ {currentPlayer}, j \in TokenIds :
                    (\/ pathIndexOf(c, j) = -1
                     \/ tokens[c][j].isFinished
                     \/ <<c, j>> \notin standingAt(landing(id))) =>
                        tokens'[c][j] = tokens[c][j] ]_vars

\* red has captured one green token and another green token stands where it
\* stood, on another cell
C31_OtherCellKept ==
    /\ pathIndexOf("red", 0) = QuarterLen + 1
    /\ pathIndexOf("green", 0) = -1
    /\ pathIndexOf("green", 1) = 3
    /\ \E i \in DOMAIN timers :
          /\ timers[i].kind = "move"
          /\ timers[i].capturedColor = "green"
          /\ timers[i].tokens["green"][0].pathIndex = 1

----------------------------------------------------------------------------
(* One live transport *)

\* the transports connecting or open
liveTransports(trs) == {t \in DOMAIN trs : trs[t].readyState \in {"CONNECTING", "OPEN"}}

\* C32: at most one transport is connecting or open at any time, and the
\* events of a transport that is not the current one change nothing of the
\* session: its close event schedules no reconnect and constructs no
\* transport, and its messages are not acted upon.
C32_OnlyCurrentTransport ==
    [][ /\ Cardinality(liveTransports(transports')) <= 1
        /\ \A t \in TransportIds :
              (/\ t # ws
               /\ \/ \E failed \in BOOLEAN : WsClose(t, failed)
                  \/ \E data \in ServerMessages : WsMessage(t, data)) =>
                  /\ UNCHANGED <<ws, roomCode, pendingRoomCode, reconnectAttempts,
                               reconnectTimeout, orphanTimers, isAuthenticated,
                               connectionState, error, userId, gameState>>
                  /\ Len(transports') = Len(transports)
                  /\ wire' = NoWire ]_vars

----------------------------------------------------------------------------
(* Explicit disconnect *)

\* the store as its disconnect() leaves it, after some connectToRoom
disconnectedQuietly ==
    /\ connects > 0
    /\ roomCode = NullCode
    /\ error = Null
    /\ gameState = NullState
    /\ connectionState = "disconnected"

\* C33: an explicit disconnect surfaces no error: after the store's
\* disconnect() error and gameState stay null and connectionState stays
\* 'disconnected' until the next connectToRoom, the close event of the
\* transport it closed included.
C33_DisconnectIsQuiet ==
    [][ /\ StoreDisconnect => disconnectedQuietly'
        /\ (disconnectedQuietly /\ connects' = connects) => disconnectedQuietly' ]_vars

----------------------------------------------------------------------------
(* The 'joining' report *)

\* C34: whenever 'joining' is reported, a JOIN_ROOM has been transmitted on
\* the current transport, whatever the room code passed to connect().
C34_JoiningMeansJoinSent ==
    [][ (connectionState' = "joining" /\ connectionState # "joining") =>
          /\ wire'.msg.type = "JOIN_ROOM"
          /\ wire'.t = ws' ]_vars

----------------------------------------------------------------------------
(* The local game: progress *)

\* C35: the game never deadlocks: in every state without a winner a roll is
\* accepted, or a token of the player to move can move on the dice shown, or
\* a pending timeout will bring the roll phase back.
C35_NoDeadlock ==
    winner = Null =>
        \/ ~hasRolled /\ ~rolling
        \/ hasRolled /\ getMovableTokens(tokens, currentPlayer, diceValue) # {}
        \/ timers # << >>

----------------------------------------------------------------------------
(* The local game: reset *)

\* the state resetGame leaves: all tokens in base and unfinished, red to
\* play, no roll made, no winner
freshGame ==
    /\ tokens = initializeTokens
    /\ currentPlayer = "red"
    /\ ~hasRolled
    /\ winner = Null

\* C36: after resetGame the game is in its initial state and stays in it
\* until the next click on the dice, whatever timeouts set before the reset
\* fire meanwhile.
C36_ResetIsClean ==
    [][ /\ ResetGame(MaxResets) => freshGame'
        /\ (resets > 0 /\ freshGame /\ rolls' = rolls) => freshGame' ]_vars

----------------------------------------------------------------------------
(* The local game: the finished flag *)

\* C37: in every state a token is marked finished if and only if it is on
\* the home cell; a captured token is not marked finished and a finished
\* token is not captured.
C37_FinishedIffHome ==
    \A c \in Colors, id \in TokenIds :
        tokens[c][id].isFinished <=> (pathIndexOf(c, id) = PathLen - 1)

\* a move has just put a token on its home cell and marked it finished
C37_TokenFinished ==
    \E i \in DOMAIN timers :
        /\ timers[i].kind = "move"
        /\ timers[i].isFinishing
        /\ tokens[timers[i].currentPlayer][timers[i].tokenId] =
               [pathIndex |-> PathLen - 1, isFinished |-> TRUE]

====
